---- MODULE Spec2Model ----
(***************************************************************************)
(* The brainfuck interpreter of src/src/main.rs: the parser, the two       *)
(* bracket matchers and the TuringMachine with its fetch-execute loop.     *)
(*                                                                         *)
(* Positions (pointer, program_counter, bracket positions) are 0-based as  *)
(* in the source; TLA+ sequences are 1-based, so the instruction at        *)
(* position i of a program prog is prog[i + 1].                            *)
(***************************************************************************)
EXTENDS Integers, Sequences, FiniteSets, TLC

(***************************************************************************)
(* Bounds of the model.                                                    *)
(***************************************************************************)
\* longest source text handed to TuringMachine::new in Spec and FairSpec
MaxProgLen == 4
\* longest source text handed to parse in ParseSpec
MaxSrcLen == 3
\* longest prefix put before the loop [-] in FairSpec
MaxPrefixLen == 3
\* number of bytes on standard input
MaxInputLen == 1
\* number of bytes standard output takes before the model stops a run
MaxOutputLen == 8
\* longest source text handed to TuringMachine::new in FairRunSpec
MaxShortLen == 3
\* capacity of the tape (30000 cells in the source, scaled down)
TapeSize == 3

\* usize::MAX (2^64 - 1 on the usual targets), scaled to the integers of TLC
UsizeMax == 2147483647

\* the bytes standard input may hold
InputBytes == {65, 200}

(***************************************************************************)
(* Source text: sequences of characters.                                   *)
(***************************************************************************)
CommandChars == {">", "<", "+", "-", ".", ",", "[", "]"}
Whitespace == {" ", "\n"}
SourceChars == CommandChars \cup Whitespace \cup {"x"}

SeqsUpTo(S, n) == UNION {[1..k -> S] : k \in 0..n}

(***************************************************************************)
(* str::trim: drops the leading and the trailing whitespace.               *)
(***************************************************************************)
RECURSIVE TrimStart(_)
TrimStart(s) ==
    IF s = <<>> \/ Head(s) \notin Whitespace THEN s ELSE TrimStart(Tail(s))

RECURSIVE TrimEnd(_)
TrimEnd(s) ==
    IF s = <<>> \/ s[Len(s)] \notin Whitespace
    THEN s
    ELSE TrimEnd(SubSeq(s, 1, Len(s) - 1))

Trim(s) == TrimEnd(TrimStart(s))

(***************************************************************************)
(* The closure of parse: one character to one Instruction; "panic" stands  *)
(* for the panic!("unrecognized character") arm.                           *)
(***************************************************************************)
\* mutant: the comma is taken for the full stop
ParseCharComma(c) ==
    CASE c = ">" -> "MoveRight"
      [] c = "<" -> "MoveLeft"
      [] c = "+" -> "Increment"
      [] c = "-" -> "Decrement"
      [] c = "." -> "Output"
      [] c = "," -> "Output"
      [] c = "[" -> "JumpToClose"
      [] c = "]" -> "JumpToOpen"
      [] OTHER -> "panic"

ParseChar(c) ==
    CASE c = ">" -> "MoveRight"
      [] c = "<" -> "MoveLeft"
      [] c = "+" -> "Increment"
      [] c = "-" -> "Decrement"
      [] c = "." -> "Output"
      [] c = "," -> "Replace"
      [] c = "[" -> "JumpToClose"
      [] c = "]" -> "JumpToOpen"
      [] OTHER -> "panic"

\* mutant: characters that are no commands are skipped as comments
ParseLenient(src) ==
    LET trimmed == Trim(src)
        kept == SelectSeq(trimmed, LAMBDA c : c \in CommandChars)
    IN  [panicked |-> FALSE,
         program |-> [i \in 1..Len(kept) |-> ParseChar(kept[i])]]

\* TuringMachine::parse: panicked is TRUE when the closure panics on a character
Parse(src) ==
    LET trimmed == Trim(src)
        mapped == [i \in 1..Len(trimmed) |-> ParseChar(trimmed[i])]
    IN  IF \E i \in 1..Len(mapped) : mapped[i] = "panic"
        THEN [panicked |-> TRUE, program |-> <<>>]
        ELSE [panicked |-> FALSE, program |-> mapped]

(***************************************************************************)
(* State.                                                                  *)
(***************************************************************************)
VARIABLES
    source,           \* the &str handed to TuringMachine::new
    status,           \* "unconstructed", "ok", or the panic that ended the process
    tape,             \* TuringMachine.tape
    pointer,          \* TuringMachine.pointer
    program,          \* TuringMachine.program
    program_counter,  \* TuringMachine.program_counter
    stdin,            \* the bytes on standard input
    stdin_pos,        \* how many of them have been read
    output,           \* the bytes written to standard output
    overflow_checks   \* the build: "on" (debug), "off" (release), "unresolved"
                      \* until the first usize overflow shows which

vars == <<source, status, tape, pointer, program, program_counter,
          stdin, stdin_pos, output, overflow_checks>>

machine == <<tape, pointer, program, program_counter>>

ZeroTape == [i \in 0..(TapeSize - 1) |-> 0]

(***************************************************************************)
(* The bracket matchers.  The stack holds only JumpToOpen markers.         *)
(***************************************************************************)
Pop(stack) == SubSeq(stack, 1, Len(stack) - 1)

\* the for loop of get_matching_closing_bracket from position token on
RECURSIVE ScanClosing(_, _, _)
ScanClosing(prog, token, stack) ==
    IF token >= Len(prog)
    THEN 0
    ELSE CASE prog[token + 1] = "JumpToOpen" ->
                IF stack = <<>>
                THEN token
                ELSE ScanClosing(prog, token + 1, Pop(stack))
           [] prog[token + 1] = "JumpToClose" ->
                ScanClosing(prog, token + 1, Append(stack, "JumpToOpen"))
           [] OTHER -> ScanClosing(prog, token + 1, stack)

\* mutant: the forward scan starts behind the bracket
get_matching_closing_bracket_exclusive(prog, bracket_to_match) ==
    ScanClosing(prog, bracket_to_match + 1, <<>>)

\* mutant: a scan that finds nothing returns a sentinel past the program
get_matching_closing_bracket_sentinel(prog, bracket_to_match) ==
    IF ScanClosing(prog, bracket_to_match, <<>>) = 0
    THEN Len(prog) + 1
    ELSE ScanClosing(prog, bracket_to_match, <<>>)

get_matching_closing_bracket(prog, bracket_to_match) ==
    ScanClosing(prog, bracket_to_match, <<>>)

\* mutant: the backward scan stops at the first [ it meets, whatever the nesting
RECURSIVE ScanOpeningFlat(_, _, _)
ScanOpeningFlat(prog, n, stack) ==
    IF n = 0
    THEN 0
    ELSE IF prog[n] = "JumpToClose"
         THEN n - 1
         ELSE ScanOpeningFlat(prog, n - 1, stack)

\* the for loop of get_matching_opening_bracket; n positions, n-1 down to 0,
\* are still to be visited
RECURSIVE ScanOpening(_, _, _)
ScanOpening(prog, n, stack) ==
    IF n = 0
    THEN 0
    ELSE LET token == n - 1
         IN  CASE prog[token + 1] = "JumpToOpen" ->
                    ScanOpening(prog, n - 1, Append(stack, "JumpToOpen"))
               [] prog[token + 1] = "JumpToClose" ->
                    IF stack = <<>>
                    THEN token
                    ELSE ScanOpening(prog, n - 1, Pop(stack))
               [] OTHER -> ScanOpening(prog, n - 1, stack)

\* mutant: the backward scan starts on the bracket itself, as the forward one does
get_matching_opening_bracket_inclusive(prog, bracket_to_match) ==
    ScanOpening(prog, bracket_to_match + 1, <<>>)

get_matching_opening_bracket(prog, bracket_to_match) ==
    ScanOpening(prog, bracket_to_match, <<>>)

(***************************************************************************)
(* Cell arithmetic and output encoding.                                    *)
(***************************************************************************)
\* mutant: saturating_add(1)
SaturatingAdd1(v) == IF v = 255 THEN 255 ELSE v + 1

\* u8::wrapping_add(1)
WrappingAdd1(v) == (v + 1) % 256

\* u8::wrapping_sub(1)
WrappingSub1(v) == (v + 255) % 256

\* print!("{}", byte as char): the char U+0000..U+00FF in UTF-8
Utf8(b) ==
    IF b < 128 THEN <<b>> ELSE <<192 + (b \div 64), 128 + (b % 64)>>

(***************************************************************************)
(* Dispatch.                                                               *)
(***************************************************************************)
\* mutant: the loop of run stops one instruction early
has_instructions_left_early == program_counter + 1 < Len(program)

has_instructions_left == program_counter < Len(program)

\* self.program.get(self.program_counter)
Fetch ==
    IF program_counter < Len(program) THEN program[program_counter + 1] ELSE "None"

\* run is inside its while loop and perform_next_instruction matched instr
Dispatch(instr) ==
    /\ status = "ok"
    /\ has_instructions_left
    /\ Fetch = instr

\* tape[pointer] does not panic
InBounds == pointer < TapeSize

(***************************************************************************)
(* Initial states.                                                         *)
(***************************************************************************)
\* the state TuringMachine::new(src) returns, before run
Constructed(src) ==
    /\ source = src
    /\ status = "ok"
    /\ tape = ZeroTape
    /\ pointer = 0
    /\ program = Parse(src).program
    /\ program_counter = 0
    /\ stdin \in SeqsUpTo(InputBytes, MaxInputLen)
    /\ stdin_pos = 0
    /\ output = <<>>
    /\ overflow_checks = "unresolved"

\* longer programs with a loop inside a loop
SamplePrograms ==
    { <<"+", "[", "[", "-", "]", "+", "+", "]">>,
      <<"+", "[", "-", "[", "]", "]">>,
      <<",", "[", ">", "[", "-", "]", "<", "-", "]">> }

Init ==
    \E src \in SeqsUpTo(CommandChars, MaxProgLen) \cup SamplePrograms :
        Constructed(src)

\* programs that end in the loop [-]
InitFair ==
    \E prefix \in SeqsUpTo(CommandChars \ {"[", "]"}, MaxPrefixLen) :
        Constructed(prefix \o <<"[", "-", "]">>)

\* short programs, for the runs checked under fairness
InitShort == \E src \in SeqsUpTo(CommandChars, MaxShortLen) : Constructed(src)

\* main before TuringMachine::new
InitParse ==
    /\ source \in SeqsUpTo(SourceChars, MaxSrcLen)
    /\ status = "unconstructed"
    /\ tape = ZeroTape
    /\ pointer = 0
    /\ program = <<>>
    /\ program_counter = 0
    /\ stdin = <<>>
    /\ stdin_pos = 0
    /\ output = <<>>
    /\ overflow_checks = "unresolved"

(***************************************************************************)
(* Actions.                                                                *)
(***************************************************************************)
\* TuringMachine::new
New ==
    /\ status = "unconstructed"
    /\ IF Parse(source).panicked
       THEN /\ status' = "InvalidCharacter"
            /\ UNCHANGED machine
       ELSE /\ status' = "ok"
            /\ tape' = ZeroTape
            /\ pointer' = 0
            /\ program' = Parse(source).program
            /\ program_counter' = 0
    /\ UNCHANGED <<source, stdin, stdin_pos, output, overflow_checks>>

\* the build turns out to be b at a usize overflow
Resolves(b) ==
    /\ overflow_checks \in {"unresolved", b}
    /\ overflow_checks' = b

move_right ==
    /\ Dispatch("MoveRight")
    /\ IF pointer = UsizeMax
       THEN \/ /\ Resolves("on")
               /\ status' = "AddOverflow"
               /\ UNCHANGED <<pointer, program_counter>>
            \/ /\ Resolves("off")
               /\ pointer' = 0
               /\ program_counter' = program_counter + 1
               /\ UNCHANGED status
       ELSE /\ pointer' = pointer + 1
            /\ program_counter' = program_counter + 1
            /\ UNCHANGED <<status, overflow_checks>>
    /\ UNCHANGED <<source, tape, program, stdin, stdin_pos, output>>

move_left ==
    /\ Dispatch("MoveLeft")
    /\ IF pointer = 0
       THEN \/ /\ Resolves("on")
               /\ status' = "SubOverflow"
               /\ UNCHANGED <<pointer, program_counter>>
            \/ /\ Resolves("off")
               /\ pointer' = UsizeMax
               /\ program_counter' = program_counter + 1
               /\ UNCHANGED status
       ELSE /\ pointer' = pointer - 1
            /\ program_counter' = program_counter + 1
            /\ UNCHANGED <<status, overflow_checks>>
    /\ UNCHANGED <<source, tape, program, stdin, stdin_pos, output>>

increment ==
    /\ Dispatch("Increment")
    /\ IF InBounds
       THEN /\ tape' = [tape EXCEPT ![pointer] = WrappingAdd1(tape[pointer])]
            /\ program_counter' = program_counter + 1
            /\ UNCHANGED status
       ELSE /\ status' = "IndexOutOfBounds"
            /\ UNCHANGED <<tape, program_counter>>
    /\ UNCHANGED <<source, pointer, program, stdin, stdin_pos, output, overflow_checks>>

decrement ==
    /\ Dispatch("Decrement")
    /\ IF InBounds
       THEN /\ tape' = [tape EXCEPT ![pointer] = WrappingSub1(tape[pointer])]
            /\ program_counter' = program_counter + 1
            /\ UNCHANGED status
       ELSE /\ status' = "IndexOutOfBounds"
            /\ UNCHANGED <<tape, program_counter>>
    /\ UNCHANGED <<source, pointer, program, stdin, stdin_pos, output, overflow_checks>>

write ==
    /\ Dispatch("Output")
    /\ IF InBounds
       THEN /\ Len(output) + Len(Utf8(tape[pointer])) <= MaxOutputLen
            /\ output' = output \o Utf8(tape[pointer])
            /\ program_counter' = program_counter + 1
            /\ UNCHANGED status
       ELSE /\ status' = "IndexOutOfBounds"
            /\ UNCHANGED <<output, program_counter>>
    /\ UNCHANGED <<source, tape, pointer, program, stdin, stdin_pos, overflow_checks>>

\* mutant: read instead of read_exact, the end of input leaves the buffer at 0
replace_zero_fill ==
    /\ Dispatch("Replace")
    /\ stdin_pos' = IF stdin_pos >= Len(stdin) THEN stdin_pos ELSE stdin_pos + 1
    /\ IF InBounds
       THEN /\ tape' = [tape EXCEPT ![pointer] =
                            IF stdin_pos >= Len(stdin) THEN 0 ELSE stdin[stdin_pos + 1]]
            /\ program_counter' = program_counter + 1
            /\ UNCHANGED status
       ELSE /\ status' = "IndexOutOfBounds"
            /\ UNCHANGED <<tape, program_counter>>
    /\ UNCHANGED <<source, pointer, program, stdin, output, overflow_checks>>

replace ==
    /\ Dispatch("Replace")
    /\ IF stdin_pos >= Len(stdin)
       THEN \* read_exact returns Err(UnexpectedEof) and unwrap panics
            /\ status' = "InputExhausted"
            /\ UNCHANGED <<tape, program_counter, stdin_pos>>
       ELSE /\ stdin_pos' = stdin_pos + 1
            /\ IF InBounds
               THEN /\ tape' = [tape EXCEPT ![pointer] = stdin[stdin_pos + 1]]
                    /\ program_counter' = program_counter + 1
                    /\ UNCHANGED status
               ELSE /\ status' = "IndexOutOfBounds"
                    /\ UNCHANGED <<tape, program_counter>>
    /\ UNCHANGED <<source, pointer, program, stdin, output, overflow_checks>>

\* mutant: the scan for the closing bracket pops the program, not its stack
jump_if_zero_draining ==
    /\ Dispatch("JumpToClose")
    /\ IF InBounds
       THEN /\ program_counter' =
                 IF tape[pointer] = 0
                 THEN get_matching_closing_bracket(program, program_counter)
                 ELSE program_counter + 1
            /\ program' = IF tape[pointer] = 0 THEN Pop(program) ELSE program
            /\ UNCHANGED status
       ELSE /\ status' = "IndexOutOfBounds"
            /\ UNCHANGED <<program, program_counter>>
    /\ UNCHANGED <<source, tape, pointer, stdin, stdin_pos, output, overflow_checks>>

jump_if_zero ==
    /\ Dispatch("JumpToClose")
    /\ IF InBounds
       THEN /\ program_counter' =
                 IF tape[pointer] = 0
                 THEN get_matching_closing_bracket(program, program_counter)
                 ELSE program_counter + 1
            /\ UNCHANGED status
       ELSE /\ status' = "IndexOutOfBounds"
            /\ UNCHANGED program_counter
    /\ UNCHANGED <<source, tape, pointer, program, stdin, stdin_pos, output, overflow_checks>>

jump_unless_zero ==
    /\ Dispatch("JumpToOpen")
    /\ IF InBounds
       THEN /\ program_counter' =
                 IF tape[pointer] = 0
                 THEN program_counter + 1
                 ELSE get_matching_opening_bracket(program, program_counter)
            /\ UNCHANGED status
       ELSE /\ status' = "IndexOutOfBounds"
            /\ UNCHANGED program_counter
    /\ UNCHANGED <<source, tape, pointer, program, stdin, stdin_pos, output, overflow_checks>>

\* the bytes of println!("not doing anything")
NotDoingAnything ==
    <<110, 111, 116, 32, 100, 111, 105, 110, 103, 32,
      97, 110, 121, 116, 104, 105, 110, 103, 10>>

\* mutant: the None arm advances the program counter as the other arms do
perform_next_none_advancing ==
    /\ status = "ok"
    /\ Fetch = "None"
    /\ Len(output) <= MaxOutputLen
    /\ output' = output \o NotDoingAnything
    /\ program_counter' = program_counter + 1
    /\ UNCHANGED <<source, status, tape, pointer, program,
                   stdin, stdin_pos, overflow_checks>>

\* perform_next_instruction called with no instruction under the counter:
\* the None arm (run never makes this call)
perform_next_none ==
    /\ status = "ok"
    /\ Fetch = "None"
    /\ Len(output) <= MaxOutputLen
    /\ output' = output \o NotDoingAnything
    /\ UNCHANGED <<source, status, tape, pointer, program, program_counter,
                   stdin, stdin_pos, overflow_checks>>

\* one turn of the while loop of run
Next ==
    \/ move_right
    \/ move_left
    \/ increment
    \/ decrement
    \/ write
    \/ replace
    \/ jump_if_zero
    \/ jump_unless_zero

NextParse == New

\* perform_next_instruction called without the test of run
NextCall ==
    \/ Next
    \/ perform_next_none

\* main: TuringMachine::new, then run
NextMain ==
    \/ New
    \/ Next

Spec == Init /\ [][Next]_vars

\* run is a plain loop: a step that can be taken is taken
FairSpec == InitFair /\ [][Next]_vars /\ WF_vars(Next)

ParseSpec == InitParse /\ [][NextParse]_vars

FairRunSpec == InitShort /\ [][Next]_vars /\ WF_vars(Next)

CallSpec == InitShort /\ [][NextCall]_vars

MainSpec == InitParse /\ [][NextMain]_vars

(***************************************************************************)
(* Notions the claims are stated with, defined without the matchers.       *)
(***************************************************************************)
\* number of positions below k that hold instr
CountBelow(prog, k, instr) == Cardinality({i \in 1..k : prog[i] = instr})

\* every [ has its ] and the other way round
Balanced(prog) ==
    /\ \A k \in 0..Len(prog) :
           CountBelow(prog, k, "JumpToClose") >= CountBelow(prog, k, "JumpToOpen")
    /\ CountBelow(prog, Len(prog), "JumpToClose")
           = CountBelow(prog, Len(prog), "JumpToOpen")

\* the [ at position p and the ] at position c are partners: same nesting depth
IsPair(prog, p, c) ==
    /\ 0 <= p /\ p < c /\ c < Len(prog)
    /\ prog[p + 1] = "JumpToClose"
    /\ prog[c + 1] = "JumpToOpen"
    /\ Balanced(SubSeq(prog, p + 2, c))

HasUnmatchedOpen(prog) ==
    \E p \in 0..(Len(prog) - 1) :
        /\ prog[p + 1] = "JumpToClose"
        /\ ~ \E c \in 0..(Len(prog) - 1) : IsPair(prog, p, c)

\* the table of the specification, and its inverse
TableChars == <<">", "<", "+", "-", ".", ",", "[", "]">>
TableInstructions ==
    <<"MoveRight", "MoveLeft", "Increment", "Decrement",
      "Output", "Replace", "JumpToClose", "JumpToOpen">>
InstructionOf(c) == TableInstructions[CHOOSE k \in 1..8 : TableChars[k] = c]
Unparse(prog) ==
    [i \in 1..Len(prog) |->
        IF \E k \in 1..8 : TableInstructions[k] = prog[i]
        THEN TableChars[CHOOSE k \in 1..8 : TableInstructions[k] = prog[i]]
        ELSE "?"]

\* t is s without its leading and trailing whitespace
IsTrimOf(t, s) ==
    \E a \in 0..Len(s) : \E b \in a..Len(s) :
        /\ t = SubSeq(s, a + 1, b)
        /\ \A i \in 1..a : s[i] \in Whitespace
        /\ \A i \in (b + 1)..Len(s) : s[i] \in Whitespace
        /\ t # <<>> => (t[1] \notin Whitespace /\ t[Len(t)] \notin Whitespace)

TrimmedOf(s) ==
    CHOOSE t \in {SubSeq(s, a + 1, b) : a \in 0..Len(s), b \in 0..Len(s)} :
        IsTrimOf(t, s)

(***************************************************************************)
(* C1.  Bracket matching is an involution: in a balanced program the       *)
(* matching open of the matching close of every [ is that [, and the       *)
(* matching close of the matching open of every ] is that ].               *)
(***************************************************************************)
C1_Involution ==
    Balanced(program) =>
        \A p \in 0..(Len(program) - 1) :
            /\ program[p + 1] = "JumpToClose" =>
                 get_matching_opening_bracket(program,
                     get_matching_closing_bracket(program, p)) = p
            /\ program[p + 1] = "JumpToOpen" =>
                 get_matching_closing_bracket(program,
                     get_matching_opening_bracket(program, p)) = p

(***************************************************************************)
(* C2.  Zero-trip loop: a [ executed on a zero cell in a balanced program  *)
(* moves the program counter to its own partner ], which lies after it,    *)
(* and leaves tape and head as they were.                                  *)
(***************************************************************************)
C2_ZeroTripSkips ==
    [][(Dispatch("JumpToClose") /\ InBounds /\ tape[pointer] = 0
            /\ Balanced(program) /\ jump_if_zero)
        => /\ IsPair(program, program_counter, program_counter')
           /\ tape' = tape
           /\ pointer' = pointer]_vars

(***************************************************************************)
(* C3.  The loop [-] at the end of the program, entered on a nonzero cell, *)
(* terminates: the run reaches the end of the program with the cell at 0.  *)
(***************************************************************************)
AtFinalClearLoop ==
    /\ status = "ok"
    /\ InBounds
    /\ program_counter + 3 = Len(program)
    /\ SubSeq(program, program_counter + 1, program_counter + 3)
           = <<"JumpToClose", "Decrement", "JumpToOpen">>

C3_ClearLoopTerminates ==
    (AtFinalClearLoop /\ tape[pointer] # 0)
        ~> (/\ status = "ok"
            /\ program_counter = Len(program)
            /\ InBounds
            /\ tape[pointer] = 0)

\* the loop was entered on the byte 65 read from standard input and has ended
C3_Witness ==
    /\ source = <<",", "[", "-", "]">>
    /\ stdin = <<65>>
    /\ stdin_pos = 1
    /\ program_counter = Len(program)
    /\ tape[0] = 0

(***************************************************************************)
(* C4.  The program ,. is a byte-identity transform: once it has run, the  *)
(* output is the single byte that was read.                                *)
(***************************************************************************)
C4_ByteIdentity ==
    (source = <<",", ".">> /\ status = "ok" /\ program_counter = 2)
        => output = <<stdin[1]>>

(***************************************************************************)
(* C5.  A program with an unmatched [ is rejected before any instruction   *)
(* executes: tape, head, counter, input and output stay in their initial   *)
(* state.                                                                  *)
(***************************************************************************)
C5_UnmatchedRejected ==
    HasUnmatchedOpen(program) =>
        /\ program_counter = 0
        /\ tape = ZeroTape
        /\ pointer = 0
        /\ stdin_pos = 0
        /\ output = <<>>

(***************************************************************************)
(* C6.  While the run has not aborted the head is within the tape.         *)
(***************************************************************************)
C6_HeadInRange == status = "ok" => pointer \in 0..(TapeSize - 1)

(***************************************************************************)
(* C7.  The program counter is a position of the program or its length,    *)
(* whatever the program (balanced or not) and the input.                   *)
(***************************************************************************)
C7_CounterInRange == program_counter \in 0..Len(program)

\* an unbalanced program was sent back to position 0 after it changed the tape
C7_Witness ==
    /\ ~Balanced(program)
    /\ program_counter = 0
    /\ tape # ZeroTape

(***************************************************************************)
(* C8.  An Input step with no byte left on standard input ends the run     *)
(* with InputExhausted and leaves tape, head, counter and output as the    *)
(* earlier steps made them; an Input step with a byte left takes exactly   *)
(* one byte, does not report exhaustion and, with the head on the tape,    *)
(* stores the byte and goes on.                                            *)
(***************************************************************************)
C8_InputExhausted ==
    [][(Dispatch("Replace") /\ replace) =>
        IF stdin_pos = Len(stdin)
        THEN /\ status' = "InputExhausted"
             /\ UNCHANGED <<tape, pointer, program_counter, output, stdin_pos>>
        ELSE /\ status' # "InputExhausted"
             /\ stdin_pos' = stdin_pos + 1
             /\ InBounds =>
                  /\ status' = "ok"
                  /\ tape'[pointer] = stdin[stdin_pos + 1]]_vars

\* the second Input step failed; the byte of the first and the output remain
C8_Witness ==
    /\ status = "InputExhausted"
    /\ Len(stdin) = 1
    /\ stdin_pos = 1
    /\ pointer = 0
    /\ tape[0] = stdin[1]
    /\ output # <<>>

(***************************************************************************)
(* C9.  Cell arithmetic wraps modulo 256: Increment turns 255 into 0 and   *)
(* any other v into v + 1, Decrement turns 0 into 255 and any other v into *)
(* v - 1; neither aborts.                                                  *)
(***************************************************************************)
C9_CellsWrap ==
    [][/\ (Dispatch("Increment") /\ InBounds /\ increment) =>
            /\ status' = "ok"
            /\ tape'[pointer] = IF tape[pointer] = 255 THEN 0 ELSE tape[pointer] + 1
       /\ (Dispatch("Decrement") /\ InBounds /\ decrement) =>
            /\ status' = "ok"
            /\ tape'[pointer] = IF tape[pointer] = 0 THEN 255 ELSE tape[pointer] - 1
      ]_vars

\* Decrement took the cell from 0 to 255 and Increment took it back to 0
C9_Witness ==
    /\ source = <<"-", "+">>
    /\ program_counter = 2
    /\ tape[0] = 0

(***************************************************************************)
(* C10.  For a source whose trimmed text holds only command characters,    *)
(* parse gives a program as long as the trimmed text whose i-th            *)
(* instruction is the table's instruction for the i-th character; the      *)
(* trimmed text can be read back from the program, so distinct trimmed     *)
(* sources give distinct programs.                                         *)
(***************************************************************************)
C10_ParseTable ==
    LET t == TrimmedOf(source)
    IN  (status # "unconstructed" /\ \A i \in 1..Len(t) : t[i] \in CommandChars)
            => /\ status = "ok"
               /\ Len(program) = Len(t)
               /\ \A i \in 1..Len(t) : program[i] = InstructionOf(t[i])
               /\ Unparse(program) = t

\* a source with whitespace around two different commands has been parsed
C10_Witness ==
    /\ status = "ok"
    /\ Len(source) = 3
    /\ source[1] \in Whitespace
    /\ Len(program) = 2
    /\ program[1] # program[2]

(***************************************************************************)
(* C11.  A source whose trimmed text holds a character that is no command  *)
(* (whitespace between commands included) fails with InvalidCharacter in   *)
(* parse: no machine is built and tape, head, counter, input and output    *)
(* never change.                                                           *)
(***************************************************************************)
C11_InvalidCharacter ==
    LET t == TrimmedOf(source)
    IN  (status # "unconstructed" /\ \E i \in 1..Len(t) : t[i] \notin CommandChars)
            => /\ status = "InvalidCharacter"
               /\ program = <<>>
               /\ tape = ZeroTape
               /\ pointer = 0
               /\ program_counter = 0
               /\ stdin_pos = 0
               /\ output = <<>>

\* a source with whitespace between two commands has been refused
C11_Witness ==
    /\ status = "InvalidCharacter"
    /\ Len(source) = 3
    /\ source[1] \in CommandChars
    /\ source[2] \in Whitespace
    /\ source[3] \in CommandChars

(***************************************************************************)
(* C12.  A MoveLeft step with the head at 0 is an error: the run aborts    *)
(* and neither the head nor the program counter moves.                     *)
(***************************************************************************)
C12_MoveLeftAtZero ==
    [][(Dispatch("MoveLeft") /\ pointer = 0 /\ move_left)
        => /\ status' # "ok"
           /\ pointer' = pointer
           /\ program_counter' = program_counter]_vars

(***************************************************************************)
(* C13.  On a balanced program the machine takes the steps of a reference  *)
(* machine that jumps by a table pairing every [ with the ] of the same    *)
(* nesting depth: after every step that does not abort, the program        *)
(* counter is the one the reference machine has.                           *)
(***************************************************************************)
\* the jump table: the partner of the bracket at position i
JumpTable(prog, i) ==
    CHOOSE j \in 0..(Len(prog) - 1) : IsPair(prog, i, j) \/ IsPair(prog, j, i)

\* the program counter of the reference machine after the instruction at pc
\* has run on a cell holding v
ReferenceCounter(prog, pc, v) ==
    CASE prog[pc + 1] = "JumpToClose" /\ v = 0 -> JumpTable(prog, pc)
      [] prog[pc + 1] = "JumpToOpen" /\ v # 0 -> JumpTable(prog, pc)
      [] OTHER -> pc + 1

C13_SameAsJumpTable ==
    [][(Balanced(program) /\ status = "ok" /\ status' = "ok" /\ InBounds)
        => program_counter' =
             ReferenceCounter(program, program_counter, tape[pointer])]_vars

(***************************************************************************)
(* C14.  A ] step at position c of a balanced program: on a nonzero cell   *)
(* the program counter becomes the position p < c of the [ of the same     *)
(* nesting depth (what lies between p and c is balanced), on a zero cell   *)
(* it becomes c + 1; tape and head stay as they were.                      *)
(***************************************************************************)
C14_LoopCloseStep ==
    [][(Dispatch("JumpToOpen") /\ InBounds /\ Balanced(program) /\ jump_unless_zero)
        => /\ tape' = tape
           /\ pointer' = pointer
           /\ status' = "ok"
           /\ IF tape[pointer] # 0
              THEN /\ program_counter' < program_counter
                   /\ IsPair(program, program_counter', program_counter)
              ELSE program_counter' = program_counter + 1]_vars

\* the outer ] of +[[-]++] went back over the inner loop to the outer [
C14_Witness ==
    /\ source = <<"+", "[", "[", "-", "]", "+", "+", "]">>
    /\ program_counter = 1
    /\ tape[0] = 2

(***************************************************************************)
(* C15.  For every [ position p of every program, matching_close(p) is     *)
(* the result of the described forward scan: with a depth that starts at 0 *)
(* at p, goes up at every [ from p on (the one at p included) and down at  *)
(* every ] met at a depth above 0, it is the first ] met at depth 0, and   *)
(* position 0 when the program ends before such a ] is met.                *)
(***************************************************************************)
\* how many of the positions a .. b-1 hold instr
CountBetween(prog, a, b, instr) ==
    Cardinality({i \in a..(b - 1) : prog[i + 1] = instr})

\* the ] positions from p on that the scan meets at depth 0
MetAtDepthZero(prog, p) ==
    {c \in p..(Len(prog) - 1) :
        /\ prog[c + 1] = "JumpToOpen"
        /\ CountBetween(prog, p, c, "JumpToClose")
               = CountBetween(prog, p, c, "JumpToOpen")}

DescribedScan(prog, p) ==
    IF MetAtDepthZero(prog, p) = {}
    THEN 0
    ELSE CHOOSE c \in MetAtDepthZero(prog, p) :
             \A d \in MetAtDepthZero(prog, p) : c <= d

OnlyHeadCellChanges ==
    \A i \in DOMAIN tape : i # pointer => tape'[i] = tape[i]

C16_NonLoopFrame ==
    [][(status = "ok" /\ status' = "ok" /\ has_instructions_left
            /\ Fetch \notin {"JumpToClose", "JumpToOpen"})
        => /\ program_counter' = program_counter + 1
           /\ Fetch = "MoveRight" => (pointer' = pointer + 1 /\ tape' = tape)
           /\ Fetch = "MoveLeft" => (pointer' = pointer - 1 /\ tape' = tape)
           /\ Fetch \in {"Increment", "Decrement", "Replace"} =>
                (pointer' = pointer /\ OnlyHeadCellChanges)
           /\ Fetch = "Output" => (pointer' = pointer /\ tape' = tape)]_vars

(***************************************************************************)
(* C17.  A program without brackets, given at least as many input bytes    *)
(* as it has Input instructions and head moves that stay on the tape,      *)
(* terminates: every step runs the instruction under the counter and       *)
(* advances the counter by 1 without aborting, so each instruction runs    *)
(* once, in order, and the run reaches the program length after that many  *)
(* steps.                                                                  *)
(***************************************************************************)
LoopFree(prog) ==
    \A i \in 1..Len(prog) : prog[i] \notin {"JumpToClose", "JumpToOpen"}

\* where the head is after the first k instructions of a program without loops
HeadAfter(prog, k) ==
    CountBelow(prog, k, "MoveRight") - CountBelow(prog, k, "MoveLeft")

StraightLineRun ==
    /\ LoopFree(program)
    /\ CountBelow(program, Len(program), "Replace") <= Len(stdin)
    /\ \A k \in 0..Len(program) : HeadAfter(program, k) \in 0..(TapeSize - 1)

C17_StraightLineTerminates ==
    /\ [][StraightLineRun =>
            /\ status' = "ok"
            /\ program_counter' = program_counter + 1]_vars
    /\ (StraightLineRun /\ status = "ok" /\ program_counter = 0)
          ~> (status = "ok" /\ program_counter = Len(program))

\* ,>. has run to its end on one input byte
C17_Witness ==
    /\ source = <<",", ">", ".">>
    /\ status = "ok"
    /\ program_counter = 3
    /\ stdin_pos = 1
    /\ pointer = 1
    /\ output = <<0>>

(***************************************************************************)
(* C18.  Input and output are ordered byte streams: the k-th Input step    *)
(* that runs takes exactly the k-th byte of standard input and stores it   *)
(* in the cell under the head; every Output step that runs appends exactly *)
(* the value of the cell under the head to standard output, so the output  *)
(* is the sequence of those values in the order of the steps.              *)
(***************************************************************************)
C18_OrderedStreams ==
    [][/\ (Dispatch("Replace") /\ replace /\ status' = "ok") =>
            /\ stdin_pos' = stdin_pos + 1
            /\ tape'[pointer] = stdin[stdin_pos + 1]
            /\ output' = output
       /\ (Dispatch("Output") /\ write /\ status' = "ok") =>
            /\ output' = Append(output, tape[pointer])
            /\ stdin_pos' = stdin_pos
       /\ (Fetch \notin {"Replace", "Output"}) =>
            /\ output' = output
            /\ stdin_pos' = stdin_pos]_vars

(***************************************************************************)
(* C19.  The program is never mutated after parse: in every state of a run *)
(* it is, in length and position by position, what the table gives for     *)
(* the source text (the sources of a run hold commands only, so the text   *)
(* is its own trimmed form).                                               *)
(***************************************************************************)
C19_ProgramFixed ==
    /\ Len(program) = Len(source)
    /\ \A i \in 1..Len(source) : program[i] = InstructionOf(source[i])

\* +[-[]] has run to its end, through a forward and a backward scan
C19_Witness ==
    /\ source = <<"+", "[", "-", "[", "]", "]">>
    /\ status = "ok"
    /\ program_counter = 6
    /\ Len(program) = 6

(***************************************************************************)
(* C20.  Halted is absorbing: with the program counter at the program      *)
(* length has_instructions_left is false and run can take no step, and a   *)
(* call of perform_next_instruction leaves tape, head, program counter     *)
(* and program as they are and reads no input.                             *)
(***************************************************************************)
Halted == status = "ok" /\ program_counter = Len(program)

C20_HaltedAbsorbing ==
    /\ [](Halted => (~has_instructions_left /\ ~ENABLED Next))
    /\ [][Halted =>
            UNCHANGED <<tape, pointer, program_counter, program,
                        stdin, stdin_pos, status>>]_vars

\* ,. has halted and perform_next_instruction was called once more
C20_Witness ==
    /\ source = <<",", ".">>
    /\ Halted
    /\ stdin_pos = 1
    /\ Len(output) > Len(NotDoingAnything)

====
